---- MODULE Spec2Model ----
(***************************************************************************)
(* Model of the agent's execution control loop (core/loop.py), the plan    *)
(* generator (modules/decision.py) and the sandboxed plan executor         *)
(* (modules/action.py).                                                    *)
(*                                                                         *)
(* Python strings are sequences of tokens.  The three control markers,     *)
(* the code fence and every whitespace character are tokens of their own,  *)
(* so that strip(), startswith(), split() and the "in" test are computed   *)
(* as the code computes them.  An Optional value is a sequence of length   *)
(* at most one: <<>> is None, <<x>> is the value x.                        *)
(***************************************************************************)
EXTENDS Integers, Sequences, FiniteSets, TLC

\* ------------------------------------------------------------------ bounds
MaxStepsBound == 2
MaxLifelinesBound == 1
\* call_tool attempts explored in one sandbox execution, and executions in a row
MaxCallAttempts == 7
MaxExecutions == 2
\* memory items in a history find_recent_successful_tools scans
MaxHistory == 6

\* --------------------------------------------------------- string helpers
None == <<>>
Some(x) == <<x>>

FINAL_ANSWER == "FINAL_ANSWER:"
FURTHER_PROCESSING_REQUIRED == "FURTHER_PROCESSING_REQUIRED:"
SANDBOX_ERROR == "[sandbox error:"
\* the code fence (three backquotes)
FENCE == "<fence>"
WS == {" ", "\n"}

RECURSIVE LStrip(_)
LStrip(s) == IF s = <<>> THEN <<>>
             ELSE IF Head(s) \in WS THEN LStrip(Tail(s)) ELSE s

RECURSIVE RStrip(_)
RStrip(s) == IF s = <<>> THEN <<>>
             ELSE IF s[Len(s)] \in WS THEN RStrip(SubSeq(s, 1, Len(s) - 1)) ELSE s

\* str.strip()
Strip(s) == RStrip(LStrip(s))

\* str.startswith(marker), for a marker that is one token
StartsWith(s, tok) == Len(s) >= 1 /\ s[1] = tok

\* marker in s
Contains(s, tok) == \E i \in 1..Len(s) : s[i] = tok

\* sub in s, for a string sub
IsSubstring(sub, s) ==
    \E i \in 0..(Len(s) - Len(sub)) : SubSeq(s, i + 1, i + Len(sub)) = sub

\* str.split(sep): every occurrence of sep separates two segments
RECURSIVE Split(_, _)
Split(s, sep) ==
    IF ~Contains(s, sep) THEN <<s>>
    ELSE LET i == CHOOSE k \in 1..Len(s) :
                      s[k] = sep /\ \A j \in 1..(k - 1) : s[j] # sep
         IN <<SubSeq(s, 1, i - 1)>> \o Split(SubSeq(s, i + 1, Len(s)), sep)

\* ------------------------------------------------- plan shape (the regex)
\* first index >= i of s that holds no whitespace (Len(s) + 1 if none)
RECURSIVE SkipWS(_, _)
SkipWS(s, i) == IF i <= Len(s) /\ s[i] \in WS THEN SkipWS(s, i + 1) ELSE i

TokenAt(s, i) == IF i >= 1 /\ i <= Len(s) THEN s[i] ELSE ""

\* \s*(async\s+)?def\s+solve\s*\(  matched from position i on
MatchSolveAt(s, i) ==
    LET a == SkipWS(s, i)
        d == IF TokenAt(s, a) = "async" /\ TokenAt(s, a + 1) \in WS
             THEN SkipWS(s, a + 1) ELSE a
        n == SkipWS(s, d + 1)
        p == SkipWS(s, n + 1)
    IN /\ TokenAt(s, d) = "def"
       /\ TokenAt(s, d + 1) \in WS
       /\ TokenAt(s, n) = "solve"
       /\ TokenAt(s, p) = "("

\* a test that takes every text for a solve plan
HasSolveDefAlways(s) == TRUE

\* re.search(r"^\s*(async\s+)?def\s+solve\s*\(", s, re.MULTILINE)
HasSolveDef(s) ==
    \E i \in 1..(Len(s) + 1) :
        /\ i = 1 \/ s[i - 1] = "\n"
        /\ MatchSolveAt(s, i)

\* ------------------------------------------------ plan generator (decision)
\* str.strip("`"): leading and trailing backquotes go, i.e. the fence tokens
RECURSIVE LStripFence(_)
LStripFence(s) == IF s = <<>> THEN <<>>
                  ELSE IF Head(s) = FENCE THEN LStripFence(Tail(s)) ELSE s

RECURSIVE RStripFence(_)
RStripFence(s) ==
    IF s = <<>> THEN <<>>
    ELSE IF s[Len(s)] = FENCE THEN RStripFence(SubSeq(s, 1, Len(s) - 1)) ELSE s

\* str.lower() of one token (the language tag is the only token with a case)
Lower(tok) == IF tok = "Python" THEN "python" ELSE tok

\* a generator that validates the response as it came
StripFencesNot(raw) == raw

\* lines 49-52: the fenced block is unwrapped, a leading language tag dropped
StripFences(raw) ==
    IF StartsWith(raw, FENCE)
    THEN LET inner == Strip(RStripFence(LStripFence(raw)))
         IN IF Len(inner) >= 1 /\ Lower(inner[1]) = "python"
            THEN Strip(Tail(inner)) ELSE inner
    ELSE raw

PLAN_UNKNOWN == <<FINAL_ANSWER, " ", "[unknown]">>
PLAN_NO_SOLVE == <<FINAL_ANSWER, " ", "[Could not generate valid solve()]">>

\* generate_plan, lines 44-63, for one response of the model: resp.ok is
\* FALSE when model.generate_text raised, else resp.text is what it returned
generate_plan(resp) ==
    IF ~resp.ok THEN PLAN_UNKNOWN
    ELSE LET raw == StripFences(Strip(resp.text))
         IN IF HasSolveDef(raw) THEN raw ELSE PLAN_NO_SOLVE

\* the responses of the model the loop is run against
ModelResponses ==
    { [ok |-> FALSE, text |-> <<>>],
      [ok |-> TRUE, text |-> <<"async", " ", "def", " ", "solve", " ", "(", ")", ":",
                               "body">>],
      [ok |-> TRUE, text |-> <<FENCE, "Python", "\n", "async", " ", "def", " ",
                               "solve", " ", "(", ")", ":", "body", "\n", FENCE>>],
      [ok |-> TRUE, text |-> <<"I", " ", "cannot", " ", "def", " ", "solve", "(", ")">>],
      [ok |-> TRUE, text |-> <<"defsolve", "(", ")">>] }

\* ------------------------------------------------ sandbox (action.py)
MAX_TOOL_CALLS_PER_PLAN == 5

\* Python values a solve() returns
PyStrVal(s) == [t |-> "str", s |-> s]
PyIntVal(n) == [t |-> "int", n |-> n]
PyListVal(items) == [t |-> "list", items |-> items]
PyDictVal(keys, vals) == [t |-> "dict", keys |-> keys, vals |-> vals]
PyNoneVal == [t |-> "none"]
PySetVal == [t |-> "set"]

RECURSIVE JoinWith(_, _)
JoinWith(parts, sep) ==
    IF parts = <<>> THEN <<>>
    ELSE IF Len(parts) = 1 THEN parts[1]
    ELSE parts[1] \o sep \o JoinWith(Tail(parts), sep)

\* repr() of a scalar inside a container: a string is quoted
PyReprScalar(v) == IF v.t = "str" THEN <<"'">> \o v.s \o <<"'">>
                   ELSE IF v.t = "int" THEN <<ToString(v.n)>>
                   ELSE IF v.t = "set" THEN <<"set()">>
                   ELSE <<"None">>

\* str(v), f"{v}"
PyStr(v) ==
    IF v.t = "str" THEN v.s
    ELSE IF v.t = "int" THEN <<ToString(v.n)>>
    ELSE IF v.t = "list"
    THEN <<"[">> \o JoinWith([i \in DOMAIN v.items |-> PyReprScalar(v.items[i])],
                             <<",", " ">>) \o <<"]">>
    ELSE IF v.t = "dict"
    THEN <<"{">> \o JoinWith([i \in DOMAIN v.keys |->
                                <<"'", v.keys[i], "'", ":", " ">> \o PyReprScalar(v.vals[i])],
                             <<",", " ">>) \o <<"}">>
    ELSE IF v.t = "set" THEN <<"set()">>
    ELSE <<"None">>

\* json.dumps of a scalar and of a mapping of scalars
JsonScalar(v) == IF v.t = "str" THEN <<"\"">> \o v.s \o <<"\"">>
                 ELSE IF v.t = "int" THEN <<ToString(v.n)>>
                 ELSE <<"null">>

JsonDumps(v) ==
    <<"{">> \o JoinWith([i \in DOMAIN v.keys |->
                           <<"\"", v.keys[i], "\"", ":", " ">> \o JsonScalar(v.vals[i])],
                        <<",", " ">>) \o <<"}">>

\* json.dumps raises TypeError for a value that JSON cannot hold
JsonSerializable(v) == \A i \in DOMAIN v.vals : v.vals[i].t # "set"

NOT_SERIALIZABLE == <<"Object of type set is not JSON serializable">>

\* line 84: f"[sandbox error: {str(e)}]"
SandboxErrorString(msg) == <<SANDBOX_ERROR, " ">> \o msg \o <<"]">>

\* a normalization that serializes every mapping
NormalizeAsJson(v) ==
    IF v.t = "dict" THEN JsonDumps(v)
    ELSE IF v.t = "list"
    THEN JoinWith([i \in DOMAIN v.items |-> PyStr(v.items[i])], <<" ">>)
    ELSE PyStr(v)

\* lines 67-75: the string the sandbox returns for the value solve() returned
\* (lines 82-84 when json.dumps raises)
Normalize(v) ==
    IF v.t = "dict" /\ \E i \in DOMAIN v.keys : v.keys[i] = "result"
    THEN PyStr(v.vals[CHOOSE i \in DOMAIN v.keys :
                        v.keys[i] = "result"
                        /\ \A j \in DOMAIN v.keys : j > i => v.keys[j] # "result"])
    ELSE IF v.t = "dict"
    THEN IF JsonSerializable(v) THEN JsonDumps(v)
         ELSE SandboxErrorString(NOT_SERIALIZABLE)
    ELSE IF v.t = "list"
    THEN JoinWith([i \in DOMAIN v.items |-> PyStr(v.items[i])], <<" ">>)
    ELSE PyStr(v)

\* line 43: the message of the RuntimeError of the tool-call budget
EXCEEDED ==
    <<"Exceeded max tool calls", " ", "(", ToString(MAX_TOOL_CALLS_PER_PLAN), ")",
      " ", "in solve() plan.">>

\* line 60: the message of the ValueError of a plan that defines no solve
NO_SOLVE == <<"No solve() function found in plan.">>

\* the values solve() returns in the runs explored
SolveReturns ==
    << PyStrVal(<<FINAL_ANSWER, " ", "42">>),
       PyStrVal(<<FINAL_ANSWER, " ", "42", "\n">>),
       PyStrVal(<<"\n", FINAL_ANSWER, " ", "42">>),
       PyStrVal(<<FURTHER_PROCESSING_REQUIRED, " ", "foo">>),
       PyStrVal(<<FURTHER_PROCESSING_REQUIRED, " ", "a", " ",
                  FURTHER_PROCESSING_REQUIRED, " ", "b">>),
       PyStrVal(<<"x", " ", FURTHER_PROCESSING_REQUIRED, " ", "y">>),
       PyStrVal(<<>>),
       PyStrVal(<<" ", "7", " ">>),
       PyDictVal(<<"result">>, <<PyIntVal(7)>>),
       PyListVal(<<PyIntVal(1), PyIntVal(2), PyIntVal(3)>>) >>

\* further values solve() returns in the executions of the sandbox explored
MoreSolveReturns ==
    << PyDictVal(<<"a">>, <<PyIntVal(1)>>),
       PyDictVal(<<"a", "b">>, <<PyIntVal(1), PyStrVal(<<"x">>)>>),
       PyDictVal(<<"a", "result">>, <<PyIntVal(1), PyStrVal(<<"x">>)>>),
       PyDictVal(<<"result">>, <<PyListVal(<<PyIntVal(1), PyIntVal(2)>>)>>),
       PyDictVal(<<"result">>, <<PyNoneVal>>),
       PyDictVal(<<>>, <<>>),
       PyDictVal(<<"a">>, <<PySetVal>>),
       PyListVal(<<>>),
       PyListVal(<<PyStrVal(<<"a">>), PyStrVal(<<"b", " ", "c">>)>>),
       PyListVal(<<PyListVal(<<PyIntVal(1), PyIntVal(2)>>), PyIntVal(3)>>),
       PyIntVal(7),
       PyNoneVal >>

NormalizeInputs ==
    { SolveReturns[i] : i \in DOMAIN SolveReturns }
    \cup { MoreSolveReturns[i] : i \in DOMAIN MoreSolveReturns }

\* what run_python_sandbox can hand back to the loop: a normalized return
\* value, or the error string of an exception
SandboxResults ==
    { Normalize(SolveReturns[i]) : i \in DOMAIN SolveReturns }
    \cup { SandboxErrorString(EXCEEDED) }

\* ------------------------------------------------ session context, loop
VARIABLES
    max_steps,            \* strategy.max_steps
    max_lifelines,        \* strategy.max_lifelines_per_step
    user_input,           \* context.user_input
    pc,                   \* where run() stands
    step,                 \* the for loop's variable (max_steps once exhausted)
    ctx_step,             \* context.step
    lifelines_left,       \* the while loop's counter
    user_input_override,  \* context.user_input_override (Optional)
    final_answer,         \* context.final_answer (Optional)
    task_progress,        \* context.task_progress
    memory,               \* the items of the memory sink, oldest first
    perception_input,     \* the input of the latest perception call (Optional)
    selected_tools,       \* the tools resolved in the latest iteration (Optional)
    model_response,       \* generate_plan's raw: the model's answer to the plan prompt,
                          \* dropped once the plan has been run (Optional)
    plan_user_input,      \* the user_input of the latest generate_plan call (Optional)
    plan,                 \* the latest plan
    result,               \* what the latest run_python_sandbox call returned (Optional)
    ret,                  \* what run() returned (Optional)
    attempts,             \* inner iterations begun in the whole run
    step_attempts,        \* inner iterations begun in the current step
    exhausted_steps,      \* steps left because lifelines_left < 0
    sandbox_runs          \* run_python_sandbox calls made

loopvars == << max_steps, max_lifelines, user_input, pc, step, ctx_step, lifelines_left,
           user_input_override, final_answer, task_progress, memory,
           perception_input, selected_tools, model_response, plan_user_input, plan,
           result, ret, attempts, step_attempts, exhausted_steps, sandbox_runs >>

\* one call of run_python_sandbox at a time, seen from inside
VARIABLES
    sb_pc,             \* where run_python_sandbox stands
    call_count,        \* SandboxMCP.call_count
    dispatcher_calls,  \* dispatcher.call_tool calls made by this execution
    handled,           \* the plan has caught an exception of a tool call
    tool_failed,       \* a dispatcher.call_tool of this execution raised
    solve_value,       \* what solve() returned (Optional)
    sb_result,         \* what run_python_sandbox returned (Optional)
    executions         \* run_python_sandbox calls begun

\* a second call of run_python_sandbox, interleaved with the first at the
\* suspension points of the two
VARIABLES
    peer_pc,           \* where the second call stands
    peer_count         \* the call_count of its SandboxMCP

peervars == << peer_pc, peer_count >>

sbvars == << sb_pc, call_count, dispatcher_calls, handled, tool_failed,
             solve_value, sb_result, executions, peervars >>

\* one call of decide_next_action, and one of find_recent_successful_tools
VARIABLES
    planning_mode,            \* strategy.planning_mode
    exploration_mode,         \* strategy.exploration_mode (Optional)
    memory_fallback_enabled,  \* strategy.memory_fallback_enabled
    memory_items,             \* the memory_items argument, oldest first
    force_replan,             \* the force_replan argument
    tool_hint,                \* perception.tool_hint (Optional)
    st_pc,                    \* where the call stands
    prompt_path,              \* the prompt_path given to generate_plan (Optional)
    tool_context,             \* the tool_descriptions given to generate_plan (Optional)
    memory_consulted,         \* find_recent_successful_tools was called
    recent_tools              \* what find_recent_successful_tools returned (Optional)

stvars == << planning_mode, exploration_mode, memory_fallback_enabled, memory_items,
             force_replan, tool_hint, st_pc, prompt_path, tool_context,
             memory_consulted, recent_tools >>

\* one call of extract_perception
VARIABLES
    server_catalogue,     \* mcp_server_descriptions: its server ids (Optional)
    pr_pc,                \* where the call stands
    perception_response,  \* what the model answered (Optional)
    perception_result     \* the PerceptionResult returned (Optional)

prvars == << server_catalogue, pr_pc, perception_response, perception_result >>

vars == << loopvars, sbvars, stvars, prvars >>

UserInputs == { <<"what", " ", "is", " ", "6*7">> }

\* the server catalogue, and the tools MultiMCP.get_tools_from_servers gives
Servers == {"math"}
get_tools_from_servers(selected) ==
    UNION { IF srv = "math" THEN {"add", "multiply"} ELSE {} : srv \in selected }

EXECUTION_FAILED == <<FINAL_ANSWER, " ", "[Execution failed]">>
MAX_STEPS_REACHED == <<FINAL_ANSWER, " ", "[Max steps reached]">>

\* AgentContext.__init__, lines 61-78: the session start is the first memory item
RunStartItem ==
    [type |-> "run_metadata", tool_name |-> "", success |-> FALSE, result |-> <<>>]

\* no call of the strategy selector has been made; the profile is conservative
InitStrategy ==
    /\ planning_mode = "conservative"
    /\ exploration_mode = None
    /\ memory_fallback_enabled = FALSE
    /\ memory_items = <<>>
    /\ force_replan = FALSE
    /\ tool_hint = None
    /\ st_pc = "idle"
    /\ prompt_path = None
    /\ tool_context = None
    /\ memory_consulted = FALSE
    /\ recent_tools = None

\* AgentLoop.__init__ and the profile: no step of run() is taken, no call of
\* run_python_sandbox begun
InitRun ==
    /\ max_steps \in 1..MaxStepsBound
    /\ max_lifelines \in 0..MaxLifelinesBound
    /\ user_input \in UserInputs
    /\ pc = "for"
    /\ step = 0
    /\ ctx_step = 0
    /\ lifelines_left = 0
    /\ user_input_override = None
    /\ final_answer = None
    /\ task_progress = <<>>
    /\ memory = <<RunStartItem>>
    /\ perception_input = None
    /\ selected_tools = None
    /\ model_response = None
    /\ plan_user_input = None
    /\ plan = <<>>
    /\ result = None
    /\ ret = None
    /\ attempts = 0
    /\ step_attempts = 0
    /\ exhausted_steps = 0
    /\ sandbox_runs = 0
    /\ sb_pc = "idle"
    /\ call_count = 0
    /\ dispatcher_calls = 0
    /\ handled = FALSE
    /\ tool_failed = FALSE
    /\ solve_value = None
    /\ sb_result = None
    /\ executions = 0
    /\ peer_pc = "idle"
    /\ peer_count = 0

\* no call of extract_perception has been made
InitPerception ==
    /\ server_catalogue = Some({"math"})
    /\ pr_pc = "idle"
    /\ perception_response = None
    /\ perception_result = None

Init == InitRun /\ InitStrategy /\ InitPerception

\* AgentContext.log_subtask
log_subtask(progress, step_now, tool_name, status) ==
    Append(progress, [step |-> step_now, tool |-> tool_name, status |-> status])

\* an update that takes the earliest entry of this tool and step
update_subtask_status_first(progress, step_now, tool_name, status) ==
    LET hits == { i \in DOMAIN progress :
                    progress[i].tool = tool_name /\ progress[i].step = step_now }
    IN IF hits = {} THEN progress
       ELSE LET first == CHOOSE i \in hits : \A j \in hits : i <= j
            IN [progress EXCEPT ![first].status = status]

\* AgentContext.update_subtask_status: the latest entry of this tool and step
update_subtask_status(progress, step_now, tool_name, status) ==
    LET hits == { i \in DOMAIN progress :
                    progress[i].tool = tool_name /\ progress[i].step = step_now }
    IN IF hits = {} THEN progress
       ELSE LET last == CHOOSE i \in hits : \A j \in hits : j <= i
            IN [progress EXCEPT ![last].status = status]

\* MemoryManager.add_tool_output (the plan text of tool_args is not kept)
add_tool_output(items, tool_name, tool_result, success) ==
    Append(items, [type |-> "tool_output", tool_name |-> tool_name,
                   success |-> success, result |-> tool_result])

\* a perception call that is always handed the original input
EffectiveInputOriginal(override, original) == original

\* lines 38-39 and perception.py line 88: x or y takes y when x is None or ""
EffectiveInput(override, original) ==
    IF override # None /\ override[1] # <<>> THEN override[1] ELSE original

\* a plan generator that is handed what perception is handed
PlanInputEffective(override, original) == EffectiveInput(override, original)

\* line 57: generate_plan is handed context.user_input, whatever the override
PlanInput(override, original) == original

\* lines 90-98: the override built from a forwarded intermediate result
OverrideText(original, res) ==
    LET content == Strip(Split(res, FURTHER_PROCESSING_REQUIRED)[2])
    IN <<"Original user task:", " ">> \o original
       \o <<"\n", "\n", "Your last tool produced this result:", "\n", "\n">>
       \o content
       \o <<"\n", "\n", "If this fully answers the task, return:", "\n",
            FINAL_ANSWER, " ", "your answer", "\n", "\n",
            "Otherwise, return the next FUNCTION_CALL.">>

Return(answer) == Some([status |-> "done", result |-> answer])

\* lines 77, 89, 102, 105: the branch the stripped result takes
ResultClass(s) ==
    IF StartsWith(s, FINAL_ANSWER) THEN "final"
    ELSE IF StartsWith(s, FURTHER_PROCESSING_REQUIRED) THEN "further"
    ELSE IF StartsWith(s, SANDBOX_ERROR) THEN "error"
    ELSE "other"

\* a loop that forgets line 76
StripResultKept(r) == r

\* line 76: result = result.strip()
StripResult(r) == Strip(r)

\* an implicit answer returned without its prefix
ImplicitAnswerBare(s) == s

\* line 107: the implicit final answer
ImplicitAnswer(s) == <<FINAL_ANSWER, " ">> \o s

\* a loop that retries whatever the execution gave
EndsRunNever(success, s) == FALSE

\* line 124 with "or" for "and"
EndsRunEither(success, s) == success \/ ~Contains(s, FURTHER_PROCESSING_REQUIRED)

\* line 124 without its test for the forwarding marker
EndsRunOnSuccess(success, s) == success

\* line 124: the result of a finished execution ends the run
EndsRun(success, s) == success /\ ~Contains(s, FURTHER_PROCESSING_REQUIRED)

\* a retry that costs two lifelines
SpendLifelineTwice(l) == l - 2

\* a retry that costs nothing
SpendLifelineNot(l) == l

\* lines 127 and 132: one lifeline is spent
SpendLifeline(l) == l - 1

\* line 36 with one iteration more, and with one less
HasLifelineOneMore(l) == l >= -1
HasLifelinePositive(l) == l > 0

\* line 36: the inner loop goes on
HasLifeline(l) == l >= 0

\* a range with one step more
HasStepOneMore(i, n) == i <= n

\* line 31: range(max_steps) has a further step
HasStep(i, n) == i < n

\* lines 31-34: a step begins
StepStart ==
    /\ pc = "for"
    /\ HasStep(step, max_steps)
    /\ ctx_step' = step
    /\ lifelines_left' = max_lifelines
    /\ step_attempts' = 0
    /\ pc' = "while"
    /\ UNCHANGED << sbvars, stvars, prvars >>
    /\ UNCHANGED << max_steps, max_lifelines, user_input, selected_tools, model_response, step, user_input_override,
                    final_answer, task_progress, memory, perception_input,
                    plan_user_input, plan, result, ret, attempts, exhausted_steps,
                    sandbox_runs >>

\* lines 135-137: the steps are used up
MaxStepsReached ==
    /\ pc = "for"
    /\ ~HasStep(step, max_steps)
    /\ final_answer' = Some(MAX_STEPS_REACHED)
    /\ ret' = Return(MAX_STEPS_REACHED)
    /\ pc' = "done"
    /\ UNCHANGED << sbvars, stvars, prvars >>
    /\ UNCHANGED << max_steps, max_lifelines, user_input, selected_tools, model_response, step, ctx_step,
                    lifelines_left, user_input_override, task_progress, memory,
                    perception_input, plan_user_input, plan, result, attempts,
                    step_attempts, exhausted_steps, sandbox_runs >>

\* line 36, condition false: the step ends with its lifelines used up
WhileExit ==
    /\ pc = "while"
    /\ ~HasLifeline(lifelines_left)
    /\ pc' = "for"
    /\ step' = step + 1
    /\ exhausted_steps' = exhausted_steps + 1
    /\ UNCHANGED << sbvars, stvars, prvars >>
    /\ UNCHANGED << max_steps, max_lifelines, user_input, selected_tools, model_response, ctx_step, lifelines_left,
                    user_input_override, final_answer, task_progress, memory,
                    perception_input, plan_user_input, plan, result, ret, attempts,
                    step_attempts, sandbox_runs >>

\* a loop that plans with whatever was resolved
NoToolsNever(tools) == FALSE

\* line 45: not selected_tools
NoTools(tools) == tools = {}

\* lines 36-47: an inner iteration begins with the perception call; no tool
\* for the selected servers breaks out of the step
Perception(selected) ==
    /\ pc = "while"
    /\ HasLifeline(lifelines_left)
    /\ attempts' = attempts + 1
    /\ step_attempts' = step_attempts + 1
    /\ perception_input' = Some(EffectiveInput(user_input_override, user_input))
    /\ selected_tools' = Some(get_tools_from_servers(selected))
    /\ IF NoTools(get_tools_from_servers(selected))
       THEN pc' = "for" /\ step' = step + 1
       ELSE pc' = "plan" /\ step' = step
    /\ UNCHANGED << sbvars, stvars, prvars >>
    /\ UNCHANGED << max_steps, max_lifelines, user_input, model_response, ctx_step, lifelines_left,
                    user_input_override, final_answer, task_progress, memory,
                    plan_user_input, plan, result, ret, exhausted_steps,
                    sandbox_runs >>

\* lines 56-71 and 130-133: the plan is generated and its shape decided
Planning(resp) ==
    /\ pc = "plan"
    /\ model_response' = Some(resp)
    /\ plan' = generate_plan(resp)
    /\ plan_user_input' = Some(PlanInput(user_input_override, user_input))
    /\ IF HasSolveDef(plan')
       THEN /\ task_progress' = log_subtask(task_progress, ctx_step, "solve_sandbox", "pending")
            /\ sandbox_runs' = sandbox_runs + 1
            /\ pc' = "sandbox"
            /\ UNCHANGED lifelines_left
       ELSE /\ lifelines_left' = SpendLifeline(lifelines_left)
            /\ pc' = "while"
            /\ UNCHANGED << task_progress, sandbox_runs >>
    /\ UNCHANGED << sbvars, stvars, prvars >>
    /\ UNCHANGED << max_steps, max_lifelines, user_input, selected_tools, step, ctx_step,
                    user_input_override, final_answer, memory, perception_input,
                    result, ret, attempts, step_attempts, exhausted_steps >>

\* lines 72-88: the sandbox returns an explicit final answer
SandboxFinal(r) ==
    /\ pc = "sandbox"
    /\ ResultClass(StripResult(r)) = "final"
    /\ result' = Some(r)
    /\ model_response' = None
    /\ final_answer' = Some(StripResult(r))
    /\ task_progress' = update_subtask_status(task_progress, ctx_step, "solve_sandbox", "success")
    /\ memory' = add_tool_output(memory, "solve_sandbox", StripResult(r), TRUE)
    /\ ret' = Return(StripResult(r))
    /\ pc' = "done"
    /\ UNCHANGED << sbvars, stvars, prvars >>
    /\ UNCHANGED << max_steps, max_lifelines, user_input, selected_tools, step, ctx_step,
                    lifelines_left, user_input_override, perception_input,
                    plan_user_input, plan, attempts, step_attempts,
                    exhausted_steps, sandbox_runs >>

\* lines 72-76 and 89-101: the sandbox forwards an intermediate result
SandboxFurther(r) ==
    /\ pc = "sandbox"
    /\ ResultClass(StripResult(r)) = "further"
    /\ result' = Some(r)
    /\ model_response' = None
    /\ user_input_override' = Some(OverrideText(user_input, StripResult(r)))
    /\ pc' = "for"
    /\ step' = step + 1
    /\ UNCHANGED << sbvars, stvars, prvars >>
    /\ UNCHANGED << max_steps, max_lifelines, user_input, selected_tools, ctx_step, lifelines_left,
                    final_answer, task_progress, memory, perception_input,
                    plan_user_input, plan, ret, attempts, step_attempts,
                    exhausted_steps, sandbox_runs >>

\* lines 72-76, 102-104 and 111-129: the sandbox reports an error
SandboxFailed(r) ==
    /\ pc = "sandbox"
    /\ ResultClass(StripResult(r)) = "error"
    /\ result' = Some(r)
    /\ model_response' = None
    /\ final_answer' = Some(EXECUTION_FAILED)
    /\ task_progress' = update_subtask_status(task_progress, ctx_step, "solve_sandbox", "failure")
    /\ memory' = add_tool_output(memory, "solve_sandbox", StripResult(r), FALSE)
    /\ IF EndsRun(FALSE, StripResult(r))
       THEN ret' = Return(EXECUTION_FAILED) /\ pc' = "done" /\ UNCHANGED lifelines_left
       ELSE lifelines_left' = SpendLifeline(lifelines_left) /\ pc' = "while" /\ UNCHANGED ret
    /\ UNCHANGED << sbvars, stvars, prvars >>
    /\ UNCHANGED << max_steps, max_lifelines, user_input, selected_tools, step, ctx_step,
                    user_input_override, perception_input, plan_user_input, plan,
                    attempts, step_attempts, exhausted_steps, sandbox_runs >>

\* lines 72-76, 105-107 and 111-129: any other result is an implicit answer
SandboxOther(r) ==
    /\ pc = "sandbox"
    /\ ResultClass(StripResult(r)) = "other"
    /\ result' = Some(r)
    /\ model_response' = None
    /\ final_answer' = Some(ImplicitAnswer(StripResult(r)))
    /\ task_progress' = update_subtask_status(task_progress, ctx_step, "solve_sandbox", "success")
    /\ memory' = add_tool_output(memory, "solve_sandbox", StripResult(r), TRUE)
    /\ IF EndsRun(TRUE, StripResult(r))
       THEN ret' = Return(ImplicitAnswer(StripResult(r))) /\ pc' = "done" /\ UNCHANGED lifelines_left
       ELSE lifelines_left' = SpendLifeline(lifelines_left) /\ pc' = "while" /\ UNCHANGED ret
    /\ UNCHANGED << sbvars, stvars, prvars >>
    /\ UNCHANGED << max_steps, max_lifelines, user_input, selected_tools, step, ctx_step,
                    user_input_override, perception_input, plan_user_input, plan,
                    attempts, step_attempts, exhausted_steps, sandbox_runs >>

Next ==
    \/ StepStart
    \/ MaxStepsReached
    \/ WhileExit
    \/ \E selected \in SUBSET Servers : Perception(selected)
    \/ \E resp \in ModelResponses : Planning(resp)
    \/ \E r \in SandboxResults : SandboxFinal(r)
    \/ \E r \in SandboxResults : SandboxFurther(r)
    \/ \E r \in SandboxResults : SandboxFailed(r)
    \/ \E r \in SandboxResults : SandboxOther(r)

Spec == Init /\ [][Next]_vars

\* run() is one coroutine: whenever it can take a step it takes one
FairSpec == Spec /\ WF_vars(Next)

\* ------------------------------------- collaborators that raise
\* run() has no exception handler: what a call made on lines 39, 56, 72, 81 or
\* 116 raises leaves run() as that exception, and nothing is returned
Raise ==
    /\ pc' = "raised"
    /\ UNCHANGED << sbvars, stvars, prvars >>
    /\ UNCHANGED << max_steps, max_lifelines, user_input, selected_tools, model_response,
                    step, ctx_step, lifelines_left, user_input_override, final_answer,
                    task_progress, memory, perception_input, plan_user_input, plan,
                    result, ret, attempts, step_attempts, exhausted_steps,
                    sandbox_runs >>

\* perception.py lines 38-51: the server catalogue is walked and the prompt
\* loaded and formatted before the try block begins (context.py line 47 lets
\* the catalogue be None)
PerceptionRaises ==
    /\ pc = "while"
    /\ HasLifeline(lifelines_left)
    /\ Raise

\* decision.py lines 34-41: the memory texts are joined and the prompt loaded
\* and formatted before the try block begins
PlanRaises ==
    /\ pc = "plan"
    /\ Raise

\* action.py line 82 catches Exception only: SystemExit, KeyboardInterrupt and
\* asyncio.CancelledError pass through run_python_sandbox
SandboxRaises ==
    /\ pc = "sandbox"
    /\ Raise

\* lines 72-81 and 102-116: the sandbox returned r, the answer and the subtask
\* status are stored, and the memory sink fails to take the record
MemoryRaises(r) ==
    /\ pc = "sandbox"
    /\ ResultClass(StripResult(r)) # "further"
    /\ result' = Some(r)
    /\ final_answer' =
          Some(CASE ResultClass(StripResult(r)) = "final" -> StripResult(r)
                 [] ResultClass(StripResult(r)) = "error" -> EXECUTION_FAILED
                 [] OTHER -> ImplicitAnswer(StripResult(r)))
    /\ task_progress' =
          update_subtask_status(task_progress, ctx_step, "solve_sandbox",
                                IF ResultClass(StripResult(r)) = "error"
                                THEN "failure" ELSE "success")
    /\ pc' = "raised"
    /\ UNCHANGED << sbvars, stvars, prvars >>
    /\ UNCHANGED << max_steps, max_lifelines, user_input, selected_tools, model_response,
                    step, ctx_step, lifelines_left, user_input_override, memory,
                    perception_input, plan_user_input, plan, ret, attempts,
                    step_attempts, exhausted_steps, sandbox_runs >>

FaultNext ==
    \/ Next
    \/ PerceptionRaises
    \/ PlanRaises
    \/ SandboxRaises
    \/ \E r \in SandboxResults : MemoryRaises(r)

FaultSpec == Init /\ [][FaultNext]_vars

\* ------------------------------------- run_python_sandbox, step by step
COMPILE_ERROR == <<"invalid syntax">>
TOOL_ERROR == <<"tool call failed">>
SOLVE_ERROR == <<"division by zero">>

\* a budget that refuses the sixth call and no later one
BudgetExceededOnce(count) == count = MAX_TOOL_CALLS_PER_PLAN + 1

\* a budget that already refuses the call that reaches the limit
BudgetExceededAtLimit(count) == count >= MAX_TOOL_CALLS_PER_PLAN

\* line 42: the call counted last is over the budget
BudgetExceeded(count) == count > MAX_TOOL_CALLS_PER_PLAN

\* a counter that lives on from one SandboxMCP to the next
CountCarriedOver(last) == last

\* lines 35-38 and 48: every execution constructs its own SandboxMCP, whose
\* count begins at 0 whatever the count of an earlier one was
NewSandboxMCP(last) == 0

\* lines 27-60: a fresh SandboxMCP, then the plan is compiled and evaluated and
\* solve looked up; loaded says how that ends for the plan at hand
SandboxEnter(loaded) ==
    /\ sb_pc = "idle"
    /\ executions < MaxExecutions
    /\ executions' = executions + 1
    /\ call_count' = NewSandboxMCP(call_count)
    /\ dispatcher_calls' = 0
    /\ handled' = FALSE
    /\ tool_failed' = FALSE
    /\ solve_value' = None
    /\ IF loaded = "raises"
       THEN sb_result' = Some(SandboxErrorString(COMPILE_ERROR)) /\ sb_pc' = "returned"
       ELSE IF loaded = "no_solve"
       THEN sb_result' = Some(SandboxErrorString(NO_SOLVE)) /\ sb_pc' = "returned"
       ELSE sb_result' = None /\ sb_pc' = "solve"
    /\ UNCHANGED peervars
    /\ UNCHANGED << loopvars, stvars, prvars >>

\* lines 40-46: solve() calls mcp.call_tool; the dispatcher answers or raises,
\* and the plan catches what the call raises or lets it through (lines 82-84)
SandboxCallTool(answers, catches) ==
    /\ sb_pc = "solve"
    /\ call_count < MaxCallAttempts
    /\ call_count' = call_count + 1
    /\ LET over == BudgetExceeded(call_count')
           raised == over \/ ~answers
       IN /\ dispatcher_calls' = IF over THEN dispatcher_calls ELSE dispatcher_calls + 1
          /\ tool_failed' = (tool_failed \/ (~over /\ ~answers))
          /\ IF raised /\ ~catches
             THEN /\ sb_result' = Some(SandboxErrorString(IF over THEN EXCEEDED
                                                           ELSE TOOL_ERROR))
                  /\ sb_pc' = "returned"
                  /\ UNCHANGED handled
             ELSE /\ handled' = (handled \/ raised)
                  /\ UNCHANGED << sb_result, sb_pc >>
    /\ UNCHANGED << solve_value, executions >>
    /\ UNCHANGED peervars
    /\ UNCHANGED << loopvars, stvars, prvars >>

\* lines 62-75: solve() returns a value, which is normalized
SandboxSolveReturn(v) ==
    /\ sb_pc = "solve"
    /\ solve_value' = Some(v)
    /\ sb_result' = Some(Normalize(v))
    /\ sb_pc' = "returned"
    /\ UNCHANGED << call_count, dispatcher_calls, handled, tool_failed, executions >>
    /\ UNCHANGED peervars
    /\ UNCHANGED << loopvars, stvars, prvars >>

\* lines 62-65 and 82-84: solve() raises an exception of its own
SandboxSolveRaise ==
    /\ sb_pc = "solve"
    /\ sb_result' = Some(SandboxErrorString(SOLVE_ERROR))
    /\ sb_pc' = "returned"
    /\ UNCHANGED << call_count, dispatcher_calls, handled, tool_failed, solve_value,
                    executions >>
    /\ UNCHANGED peervars
    /\ UNCHANGED << loopvars, stvars, prvars >>

\* lines 62-65 and 82: solve() raises what is no Exception (SystemExit from
\* exit(), KeyboardInterrupt, asyncio.CancelledError of a cancelled tool call);
\* the except clause does not take it and it leaves run_python_sandbox
SandboxSolveExits ==
    /\ sb_pc = "solve"
    /\ sb_pc' = "raised"
    /\ UNCHANGED << call_count, dispatcher_calls, handled, tool_failed, solve_value,
                    sb_result, executions >>
    /\ UNCHANGED peervars
    /\ UNCHANGED << loopvars, stvars, prvars >>

\* the caller has the result or the exception; the next call of
\* run_python_sandbox can begin
SandboxLeave ==
    /\ sb_pc \in {"returned", "raised"}
    /\ sb_pc' = "idle"
    /\ UNCHANGED << call_count, dispatcher_calls, handled, tool_failed, solve_value,
                    sb_result, executions >>
    /\ UNCHANGED peervars
    /\ UNCHANGED << loopvars, stvars, prvars >>

\* lines 27-60 in the second call: it constructs a SandboxMCP of its own
PeerEnter ==
    /\ peer_pc = "idle"
    /\ peer_pc' = "solve"
    /\ peer_count' = NewSandboxMCP(peer_count)
    /\ UNCHANGED << sb_pc, call_count, dispatcher_calls, handled, tool_failed,
                    solve_value, sb_result, executions >>
    /\ UNCHANGED << loopvars, stvars, prvars >>

\* lines 40-46 in the second call: its solve() calls its mcp.call_tool, and
\* the call over the budget ends it (lines 82-84)
PeerCallTool ==
    /\ peer_pc = "solve"
    /\ peer_count < MaxCallAttempts
    /\ peer_count' = peer_count + 1
    /\ peer_pc' = IF BudgetExceeded(peer_count') THEN "idle" ELSE "solve"
    /\ UNCHANGED << sb_pc, call_count, dispatcher_calls, handled, tool_failed,
                    solve_value, sb_result, executions >>
    /\ UNCHANGED << loopvars, stvars, prvars >>

\* lines 62-75 in the second call: its solve() returns
PeerReturn ==
    /\ peer_pc = "solve"
    /\ peer_pc' = "idle"
    /\ UNCHANGED peer_count
    /\ UNCHANGED << sb_pc, call_count, dispatcher_calls, handled, tool_failed,
                    solve_value, sb_result, executions >>
    /\ UNCHANGED << loopvars, stvars, prvars >>

SandboxNext ==
    \/ \E loaded \in {"raises", "no_solve", "solve"} : SandboxEnter(loaded)
    \/ \E answers \in BOOLEAN, catches \in BOOLEAN : SandboxCallTool(answers, catches)
    \/ \E v \in NormalizeInputs : SandboxSolveReturn(v)
    \/ SandboxSolveRaise
    \/ SandboxSolveExits
    \/ SandboxLeave
    \/ PeerEnter
    \/ PeerCallTool
    \/ PeerReturn

SandboxSpec == Init /\ [][SandboxNext]_vars

\* ------------------------------------------------ strategy (strategy.py)
CONSERVATIVE_PROMPT == "prompts/decision_prompt_conservative.txt"
PARALLEL_PROMPT == "prompts/decision_prompt_exploratory_parallel.txt"
SEQUENTIAL_PROMPT == "prompts/decision_prompt_exploratory_sequential.txt"

\* a selector that takes every exploratory profile for a sequential one
SelectPromptPathNoFallback(mode, sub_mode) ==
    IF mode = "conservative" THEN CONSERVATIVE_PROMPT
    ELSE IF sub_mode = Some("parallel") THEN PARALLEL_PROMPT
    ELSE SEQUENTIAL_PROMPT

\* lines 19-28
select_decision_prompt_path(mode, sub_mode) ==
    IF mode = "conservative" THEN CONSERVATIVE_PROMPT
    ELSE IF mode = "exploratory" /\ sub_mode = Some("parallel") THEN PARALLEL_PROMPT
    ELSE IF mode = "exploratory" /\ sub_mode = Some("sequential") THEN SEQUENTIAL_PROMPT
    ELSE CONSERVATIVE_PROMPT

\* a scan that takes a name every time it meets it
AlreadyCollectedNever(name, found) == FALSE

\* line 207: item.tool_name not in successful_tools, negated
AlreadyCollected(name, found) == \E k \in DOMAIN found : found[k] = name

\* lines 205-210: the scan from item i down to the oldest item
RECURSIVE ScanMemory(_, _, _, _)
ScanMemory(items, i, found, limit) ==
    IF i = 0 THEN found
    ELSE LET item == items[i]
             found2 == IF /\ item.type = "tool_output"
                          /\ item.success
                          /\ item.tool_name # ""
                          /\ ~AlreadyCollected(item.tool_name, found)
                       THEN Append(found, item.tool_name) ELSE found
         IN IF Len(found2) >= limit THEN found2
            ELSE ScanMemory(items, i - 1, found2, limit)

\* line 201: limit: int = 5
DEFAULT_LIMIT == 5

\* lines 201-212
find_recent_successful_tools(items, limit) == ScanMemory(items, Len(items), <<>>, limit)

\* the tool catalogue (all_tools), and the tool names memory items carry
AllTools == <<"search", "add", "multiply">>
ToolNames == <<"search", "add", "multiply", "fetch", "sort", "open">>

\* modules.tools.filter_tools_by_hint: without a hint every tool, with one the
\* tools it names
filter_tools_by_hint(tools, hint) ==
    IF hint = None THEN tools
    ELSE SelectSeq(tools, LAMBDA t : t = hint[1])

\* modules.tools.summarize_tools: one line for each tool
summarize_tools(tools) ==
    JoinWith([k \in DOMAIN tools |-> <<"-", " ", tools[k]>>], <<"\n">>)

\* a conservative planner that does not hear force_replan
ConservativeContextUnforced(filtered_summary, all_tools, forced) ==
    IF Strip(filtered_summary) = <<>> THEN summarize_tools(all_tools)
    ELSE filtered_summary

\* conservative_plan, lines 98-102: the tool_context
ConservativeContext(filtered_summary, all_tools, forced) ==
    IF forced \/ Strip(filtered_summary) = <<>> THEN summarize_tools(all_tools)
    ELSE filtered_summary

\* a fallback that is tried whether or not a replan is forced
MemoryFallbackUnforced(forced, enabled) == enabled

\* exploratory_plan, lines 131 and 134: memory is asked for fallback tools
MemoryFallbackApplies(forced, enabled) == forced /\ enabled

\* exploratory_plan, lines 131-164: the tool_context, and whether
\* find_recent_successful_tools was called
ExploratoryContext(items, filtered_summary, all_tools, enabled, forced) ==
    LET fallback_tools == find_recent_successful_tools(items, DEFAULT_LIMIT)
    IN IF MemoryFallbackApplies(forced, enabled) /\ fallback_tools # <<>>
       THEN [tool_context |-> summarize_tools(fallback_tools), consulted |-> TRUE]
       ELSE IF forced
       THEN [tool_context |-> summarize_tools(all_tools),
             consulted |-> MemoryFallbackApplies(forced, enabled)]
       ELSE [tool_context |-> IF Strip(filtered_summary) = <<>>
                              THEN summarize_tools(all_tools)
                              ELSE filtered_summary,
             consulted |-> MemoryFallbackApplies(forced, enabled)]

\* a memory item of a tool call
ToolOutputItem(name, success) ==
    [type |-> "tool_output", tool_name |-> name, success |-> success, result |-> <<>>]

\* the histories decide_next_action is called with
DecisionHistories ==
    { <<>>,
      <<RunStartItem>>,
      <<RunStartItem, ToolOutputItem("fetch", TRUE), ToolOutputItem("search", FALSE)>>,
      <<ToolOutputItem("search", TRUE), ToolOutputItem("search", TRUE)>> }

PlanningModes == {"conservative", "exploratory", "balanced"}
ExplorationModes == {None, Some("parallel"), Some("sequential"), Some("random")}
ToolHints == {None, Some("search"), Some("calendar")}

\* the profile and the memory decide_next_action is called with
StrategyInit ==
    /\ InitRun
    /\ InitPerception
    /\ planning_mode \in PlanningModes
    /\ exploration_mode \in ExplorationModes
    /\ memory_fallback_enabled \in BOOLEAN
    /\ memory_items \in DecisionHistories
    /\ force_replan = FALSE
    /\ tool_hint = None
    /\ st_pc = "idle"
    /\ prompt_path = None
    /\ tool_context = None
    /\ memory_consulted = FALSE
    /\ recent_tools = None

\* decide_next_action, lines 45-83: the prompt path is selected, the tools are
\* filtered by the hint, and the planner of the mode calls generate_plan with
\* its tool context; generate_plan (lines 188-193) reads perception.user_input,
\* which PerceptionResult does not have, so the call ends with AttributeError
DecideNextAction(forced, hint) ==
    /\ st_pc = "idle"
    /\ force_replan' = forced
    /\ tool_hint' = hint
    /\ prompt_path' = Some(select_decision_prompt_path(planning_mode, exploration_mode))
    /\ LET filtered_summary == summarize_tools(filter_tools_by_hint(AllTools, hint))
           explored == ExploratoryContext(memory_items, filtered_summary, AllTools,
                                          memory_fallback_enabled, forced)
       IN IF planning_mode = "conservative"
          THEN /\ tool_context' = Some(ConservativeContext(filtered_summary, AllTools, forced))
               /\ memory_consulted' = FALSE
          ELSE IF planning_mode = "exploratory"
          THEN /\ tool_context' = Some(explored.tool_context)
               /\ memory_consulted' = explored.consulted
          ELSE /\ tool_context' = Some(summarize_tools(AllTools))
               /\ memory_consulted' = FALSE
    /\ st_pc' = "raised"
    /\ UNCHANGED << planning_mode, exploration_mode, memory_fallback_enabled,
                    memory_items, recent_tools >>
    /\ UNCHANGED << loopvars, sbvars, prvars >>

StrategyNext == \E forced \in BOOLEAN, hint \in ToolHints : DecideNextAction(forced, hint)

StrategySpec == StrategyInit /\ [][StrategyNext]_vars

\* the items a history is made of: a successful call of each tool, a failed
\* call, a call without a tool name, and an item that is no tool output
MemoryItemKinds ==
    { ToolOutputItem(ToolNames[k], TRUE) : k \in DOMAIN ToolNames }
    \cup { ToolOutputItem("search", FALSE), ToolOutputItem("", TRUE), RunStartItem }

\* the tool names a history mentions
NamesIn(items) == { items[i].tool_name : i \in DOMAIN items } \ {""}

\* MemoryManager.add: the history grows by one item (tools enter a history in
\* the order of ToolNames)
Remember(item) ==
    /\ st_pc = "idle"
    /\ Len(memory_items) < MaxHistory
    /\ \/ item.tool_name \in NamesIn(memory_items) \cup {""}
       \/ \E k \in DOMAIN ToolNames :
             /\ item.tool_name = ToolNames[k]
             /\ k = Cardinality(NamesIn(memory_items)) + 1
    /\ memory_items' = Append(memory_items, item)
    /\ UNCHANGED << planning_mode, exploration_mode, memory_fallback_enabled,
                    force_replan, tool_hint, st_pc, prompt_path, tool_context,
                    memory_consulted, recent_tools >>
    /\ UNCHANGED << loopvars, sbvars, prvars >>

\* find_recent_successful_tools(memory_items), lines 201-212
FindRecentSuccessfulTools ==
    /\ st_pc = "idle"
    /\ recent_tools' = Some(find_recent_successful_tools(memory_items, DEFAULT_LIMIT))
    /\ st_pc' = "found"
    /\ UNCHANGED << planning_mode, exploration_mode, memory_fallback_enabled,
                    memory_items, force_replan, tool_hint, prompt_path, tool_context,
                    memory_consulted >>
    /\ UNCHANGED << loopvars, sbvars, prvars >>

MemoryNext ==
    \/ \E item \in MemoryItemKinds : Remember(item)
    \/ FindRecentSuccessfulTools

\* the scan reads nothing of the profile: one profile is explored
MemoryInit == Init /\ max_steps = 1 /\ max_lifelines = 0

MemorySpec == MemoryInit /\ [][MemoryNext]_vars

\* ------------------------------------------------ perception (perception.py)
\* the servers a catalogue can hold
KnownServers == {"math", "documents", "websearch"}

\* the JSON object of a response: a key that is absent is None
PerceptionObject(intent, hint, selected) ==
    [intent |-> intent, tool_hint |-> hint, selected_servers |-> selected]

\* what the model does with the perception prompt: the call raises, the text
\* is no JSON object, or it is one
PerceptionResponses ==
    { [ok |-> FALSE, json |-> FALSE, obj |-> PerceptionObject(None, None, None)],
      [ok |-> TRUE, json |-> FALSE, obj |-> PerceptionObject(None, None, None)] }
    \cup { [ok |-> TRUE, json |-> TRUE, obj |-> PerceptionObject(intent, hint, selected)] :
             intent \in {None, Some("calculate")},
             hint \in {None, Some("add")},
             selected \in {None} \cup { Some(sel) : sel \in SUBSET {"math", "calendar"} } }

\* PerceptionResult, lines 26-31
PerceptionResult(intent, hint, selected) ==
    [intent |-> intent, tool_hint |-> hint, selected_servers |-> selected]

\* lines 70-79: the result of a failed extraction
FallbackPerception(catalogue) == PerceptionResult("unknown", None, catalogue)

\* lines 54-79: the result for one response of the model; intent is a required
\* field of PerceptionResult, so an object without it fails validation
PerceptionFor(resp, catalogue) ==
    IF ~resp.ok \/ ~resp.json \/ resp.obj.intent = None
    THEN FallbackPerception(catalogue)
    ELSE PerceptionResult(resp.obj.intent[1], resp.obj.tool_hint,
                          IF resp.obj.selected_servers = None THEN catalogue
                          ELSE resp.obj.selected_servers[1])

PerceptionInit ==
    /\ InitRun
    /\ InitStrategy
    /\ server_catalogue \in {None} \cup { Some(cat) : cat \in SUBSET KnownServers }
    /\ pr_pc = "idle"
    /\ perception_response = None
    /\ perception_result = None

\* lines 38-51: the catalogue is walked and the prompt loaded and formatted,
\* all before the try block; a catalogue that is None (context.py line 47) and
\* a template that does not load or format end the call with an exception
ExtractPrompt(loads) ==
    /\ pr_pc = "idle"
    /\ pr_pc' = IF server_catalogue = None \/ ~loads THEN "raised" ELSE "prompted"
    /\ UNCHANGED << server_catalogue, perception_response, perception_result >>
    /\ UNCHANGED << loopvars, sbvars, stvars >>

\* lines 54-79: the model is called and its output parsed and validated
ExtractModel(resp) ==
    /\ pr_pc = "prompted"
    /\ perception_response' = Some(resp)
    /\ perception_result' = Some(PerceptionFor(resp, server_catalogue[1]))
    /\ pr_pc' = "returned"
    /\ UNCHANGED server_catalogue
    /\ UNCHANGED << loopvars, sbvars, stvars >>

PerceptionNext ==
    \/ \E loads \in BOOLEAN : ExtractPrompt(loads)
    \/ \E resp \in PerceptionResponses : ExtractModel(resp)

PerceptionSpec == PerceptionInit /\ [][PerceptionNext]_vars

\* ------------------------------------------------------------- claims
Done == pc = "done"

\* the inner loop, standing at its head with a lifeline left, begins another
\* iteration of the same step
RetriesInStep ==
    (pc = "while" /\ lifelines_left >= 0)
        => (attempts' = attempts + 1 /\ ctx_step' = ctx_step /\ step' >= step)

\* the step of the loop that handles what run_python_sandbox returned
SandboxReturns == pc = "sandbox" /\ result' # None

AttemptBounds ==
    /\ step <= max_steps
    /\ ctx_step < max_steps
    /\ step_attempts <= max_lifelines + 1
    /\ attempts <= max_steps * (max_lifelines + 1)

\* C1: for every max_steps = N >= 1 and max_lifelines_per_step = L >= 0 and
\* every sequence of responses, run() comes to an end, within at most N outer
\* steps, at most L+1 inner attempts in each step and at most N*(L+1) attempts
\* in all.
C1_Terminates == [](AttemptBounds) /\ <>Done

C1_Witness ==
    /\ Done
    /\ max_steps = 2 /\ max_lifelines = 1
    /\ attempts = max_steps * (max_lifelines + 1)

\* C2: every return of run() is {status: "done", result: r}, r is
\* context.final_answer at that moment, and r starts with "FINAL_ANSWER:".
C2_TerminalShape ==
    /\ Done <=> ret # None
    /\ ret # None =>
         /\ ret[1].status = "done"
         /\ final_answer = Some(ret[1].result)
         /\ StartsWith(ret[1].result, FINAL_ANSWER)

C2_Witness ==
    /\ ret = Return(<<FINAL_ANSWER, " ", "1", " ", "2", " ", "3">>)
    /\ result = Some(<<"1", " ", "2", " ", "3">>)

\* C3 as stated: a sandbox result that starts with "FINAL_ANSWER:" is returned
\* unchanged.
C3_Original ==
    (result # None /\ StartsWith(result[1], FINAL_ANSWER))
        => (Done /\ ret = Return(result[1]))

\* C3: whenever the sandbox result, with leading and trailing whitespace
\* stripped, starts with "FINAL_ANSWER:", run() returns in that same inner
\* iteration with the stripped result, context.final_answer is set to it, no
\* lifeline is spent, and nothing is perceived, planned or executed after it.
C3_ExplicitFinal ==
    [][ /\ (SandboxReturns /\ StartsWith(Strip(result'[1]), FINAL_ANSWER))
            => /\ pc' = "done"
               /\ ret' = Return(Strip(result'[1]))
               /\ final_answer' = Some(Strip(result'[1]))
               /\ lifelines_left' = lifelines_left
               /\ attempts' = attempts
               /\ sandbox_runs' = sandbox_runs
        /\ ~Done ]_vars

C3_Witness ==
    /\ Done
    /\ result = Some(<<FINAL_ANSWER, " ", "42", "\n">>)
    /\ ret = Return(<<FINAL_ANSWER, " ", "42">>)

\* the content that follows the forwarding marker in a result
TrailingContent(r) == Strip(Tail(Strip(r)))

\* C4: when the sandbox result starts with "FURTHER_PROCESSING_REQUIRED:"
\* followed by content c, no lifeline is spent and the effective input of the
\* next inner iteration contains both c and the original user input.
C4_Original ==
    [][ (SandboxReturns /\ StartsWith(Strip(result'[1]), FURTHER_PROCESSING_REQUIRED))
            => /\ lifelines_left' = lifelines_left
               /\ IsSubstring(TrailingContent(result'[1]),
                              EffectiveInput(user_input_override', user_input))
               /\ IsSubstring(user_input,
                              EffectiveInput(user_input_override', user_input)) ]_vars

\* C5: after a sandbox result starting with "FURTHER_PROCESSING_REQUIRED:" the
\* next attempt runs within the same outer step: the loop stands at the head
\* of the inner loop and the step budget is not consumed.
C5_Original ==
    [][ (SandboxReturns /\ StartsWith(Strip(result'[1]), FURTHER_PROCESSING_REQUIRED))
            => (pc' = "while" /\ step' = step /\ ctx_step' = ctx_step) ]_vars

\* C6: a plan without a solve definition costs exactly one lifeline, the
\* sandbox is not invoked for it, and the loop retries within the same step
\* while the counter is not below zero.
C6_InvalidPlan ==
    [][ /\ (pc = "plan" /\ ~HasSolveDef(plan'))
            => /\ lifelines_left' = lifelines_left - 1
               /\ sandbox_runs' = sandbox_runs
               /\ pc' = "while"
               /\ step' = step /\ ctx_step' = ctx_step
        /\ RetriesInStep ]_vars

C6_Witness ==
    /\ pc = "plan"
    /\ plan = PLAN_NO_SOLVE
    /\ step_attempts = 2
    /\ lifelines_left = max_lifelines - 1
    /\ sandbox_runs = 0

C8_MaxStepsReached ==
    (Done /\ exhausted_steps = max_steps)
        => /\ ret = Return(MAX_STEPS_REACHED)
           /\ final_answer = Some(MAX_STEPS_REACHED)
           /\ attempts = max_steps * (max_lifelines + 1)

C8_Witness ==
    /\ Done
    /\ max_steps = 2 /\ max_lifelines = 1
    /\ exhausted_steps = max_steps
    /\ \E i \in DOMAIN memory : memory[i].type = "tool_output" /\ ~memory[i].success

\* C9: a sandbox result that starts with "[sandbox error:" does not end the
\* run: the final answer becomes "FINAL_ANSWER: [Execution failed]", the record
\* is persisted with success = false, exactly one lifeline is spent, and the
\* loop retries within the same step while the counter is not below zero.
C9_SandboxError ==
    [][ /\ (SandboxReturns /\ StartsWith(result'[1], SANDBOX_ERROR))
            => /\ pc' = "while"
               /\ ret' = None
               /\ final_answer' = Some(EXECUTION_FAILED)
               /\ memory' = Append(memory, [type |-> "tool_output",
                                            tool_name |-> "solve_sandbox",
                                            success |-> FALSE,
                                            result |-> Strip(result'[1])])
               /\ lifelines_left' = lifelines_left - 1
               /\ step' = step /\ ctx_step' = ctx_step
        /\ RetriesInStep ]_vars

C9_Witness ==
    /\ pc = "plan"
    /\ result = Some(SandboxErrorString(EXCEEDED))
    /\ final_answer = Some(EXECUTION_FAILED)
    /\ step_attempts = 2
    /\ ~memory[Len(memory)].success

\* C10 as stated: a non-empty sandbox result that starts with none of the three
\* markers is returned as "FINAL_ANSWER: " + result, with no lifeline spent.
C10_Original ==
    [][ (/\ SandboxReturns
         /\ result'[1] # <<>>
         /\ ~StartsWith(result'[1], FINAL_ANSWER)
         /\ ~StartsWith(result'[1], FURTHER_PROCESSING_REQUIRED)
         /\ ~StartsWith(result'[1], SANDBOX_ERROR))
            => /\ pc' = "done"
               /\ ret' = Return(ImplicitAnswer(result'[1]))
               /\ lifelines_left' = lifelines_left ]_vars

\* C10: a non-empty sandbox result that, with leading and trailing whitespace
\* stripped, starts with none of the three markers is persisted as a success
\* and stored as "FINAL_ANSWER: " + the stripped result; it is returned in that
\* same iteration, with no lifeline spent, when it holds no
\* "FURTHER_PROCESSING_REQUIRED:" anywhere, and costs one lifeline and a retry
\* when it does.
C10_ImplicitFinal ==
    [][ (/\ SandboxReturns
         /\ result'[1] # <<>>
         /\ ~StartsWith(Strip(result'[1]), FINAL_ANSWER)
         /\ ~StartsWith(Strip(result'[1]), FURTHER_PROCESSING_REQUIRED)
         /\ ~StartsWith(Strip(result'[1]), SANDBOX_ERROR))
            => /\ final_answer' = Some(<<FINAL_ANSWER, " ">> \o Strip(result'[1]))
               /\ memory' = Append(memory, [type |-> "tool_output",
                                            tool_name |-> "solve_sandbox",
                                            success |-> TRUE,
                                            result |-> Strip(result'[1])])
               /\ IF Contains(result'[1], FURTHER_PROCESSING_REQUIRED)
                  THEN /\ pc' = "while" /\ ret' = None
                       /\ lifelines_left' = lifelines_left - 1
                  ELSE /\ pc' = "done"
                       /\ ret' = Return(<<FINAL_ANSWER, " ">> \o Strip(result'[1]))
                       /\ lifelines_left' = lifelines_left ]_vars

C10_Witness ==
    /\ pc = "while"
    /\ result = Some(<<"x", " ", FURTHER_PROCESSING_REQUIRED, " ", "y">>)
    /\ final_answer = Some(<<FINAL_ANSWER, " ", "x", " ", FURTHER_PROCESSING_REQUIRED, " ", "y">>)
    /\ memory[Len(memory)].success
    /\ lifelines_left = max_lifelines - 1

\* the step of the loop that begins an inner iteration and resolves its tools
ToolsResolved == pc = "while" /\ attempts' = attempts + 1

\* C11: when the tool set resolved from the selected servers is empty, the
\* step ends at once: no plan is generated and no sandbox run, no lifeline is
\* spent, no further attempt is made in that step even if lifelines remain, and
\* control passes to the next step or, after the last step, to the max-steps
\* answer.
C11_NoTools ==
    [][ /\ (ToolsResolved /\ selected_tools' = Some({}))
            => /\ pc' = "for"
               /\ step' = step + 1
               /\ lifelines_left' = lifelines_left
               /\ model_response' = model_response
               /\ plan' = plan
               /\ plan_user_input' = plan_user_input
               /\ sandbox_runs' = sandbox_runs
               /\ ret' = None
        /\ (pc = "for")
            => \/ pc' = "while" /\ ctx_step' = step /\ step_attempts' = 0
                                /\ step < max_steps
               \/ pc' = "done" /\ ret' = Return(MAX_STEPS_REACHED)
                               /\ step = max_steps ]_vars

C11_Witness ==
    /\ pc = "while"
    /\ selected_tools = Some({})
    /\ max_lifelines = 1
    /\ lifelines_left = max_lifelines
    /\ ctx_step = 1
    /\ attempts = 1
    /\ step_attempts = 0
    /\ sandbox_runs = 0
    /\ model_response = None

\* run() is over: it has returned, or an exception has left it
RunOver == pc \in {"done", "raised"}

\* C13: whatever the perception adapter, the plan generator, the sandbox and
\* the memory sink do, including failing, run() ends by returning the terminal
\* mapping {status: "done", result: ...}.
C13_Original ==
    RunOver => (ret # None /\ ret[1].status = "done")

\* C20: the output of the plan generator is always one of three things: the
\* model's response with its fences stripped when that holds a solve
\* definition, "FINAL_ANSWER: [unknown]" when the model call fails, and
\* "FINAL_ANSWER: [Could not generate valid solve()]" when the response holds
\* no recognizable solve definition.
C20_PlanOutput ==
    [][ (pc = "plan" /\ pc' # "raised") =>
          LET resp == model_response'[1]
              text == StripFences(Strip(resp.text))
          IN /\ model_response' # None
             /\ ~resp.ok => plan' = PLAN_UNKNOWN
             /\ (resp.ok /\ HasSolveDef(text)) => (plan' = text /\ HasSolveDef(plan'))
             /\ (resp.ok /\ ~HasSolveDef(text)) => plan' = PLAN_NO_SOLVE
             /\ resp.text = <<FENCE, "Python", "\n", "async", " ", "def", " ", "solve",
                              " ", "(", ")", ":", "body", "\n", FENCE>>
                  => plan' = <<"async", " ", "def", " ", "solve", " ", "(", ")", ":",
                               "body">>
             /\ resp.text \in { <<"I", " ", "cannot", " ", "def", " ", "solve", "(", ")">>,
                                <<"defsolve", "(", ")">> }
                  => plan' = PLAN_NO_SOLVE ]_vars

C20_Witness ==
    /\ pc = "sandbox"
    /\ model_response # None
    /\ StartsWith(model_response[1].text, FENCE)
    /\ plan = <<"async", " ", "def", " ", "solve", " ", "(", ")", ":", "body">>

\* C12 as stated: run_python_sandbox never raises to its caller, and every
\* execution that fails (no value of solve is normalized) returns a string
\* that starts with "[sandbox error:".
C12_Original ==
    /\ sb_pc # "raised"
    /\ (sb_pc = "returned" /\ solve_value = None)
         => StartsWith(sb_result[1], SANDBOX_ERROR)

\* C14: the tool-call count is private to one execution: every execution
\* starts with count 0, a call made in another execution leaves the count
\* alone, the first five calls of an execution reach the dispatcher whatever
\* other executions have called, and the budget error comes only from a call
\* of the execution's own that is past its fifth.
C14_PrivateCount ==
    [][ /\ (sb_pc = "idle" /\ sb_pc' # "idle") => call_count' = 0
        /\ (peer_pc = "idle" /\ peer_pc' # "idle") => peer_count' = 0
        /\ (peer_count' # peer_count)
             => (call_count' = call_count /\ dispatcher_calls' = dispatcher_calls
                 /\ sb_result' = sb_result /\ sb_pc' = sb_pc)
        /\ (call_count' # call_count) => (peer_count' = peer_count /\ peer_pc' = peer_pc)
        /\ (sb_pc = "solve" /\ call_count' = call_count + 1 /\ call_count < 5)
             => (dispatcher_calls' = dispatcher_calls + 1
                 /\ sb_result' # Some(SandboxErrorString(EXCEEDED)))
        /\ (sb_pc = "solve" /\ sb_result' = Some(SandboxErrorString(EXCEEDED)))
             => (call_count' = call_count + 1 /\ call_count >= 5) ]_vars

C14_Witness ==
    /\ executions = 2
    /\ sb_pc = "returned"
    /\ solve_value # None
    /\ call_count = 5
    /\ dispatcher_calls = 5
    /\ peer_pc = "solve"
    /\ peer_count = 5

\* the value a mapping holds under a key
ValueOf(v, key) == v.vals[CHOOSE i \in DOMAIN v.keys : v.keys[i] = key]

SuccessesOf(name) ==
    { i \in DOMAIN memory_items :
        /\ memory_items[i].type = "tool_output"
        /\ memory_items[i].success
        /\ memory_items[i].tool_name = name }

LastSuccessOf(name) == CHOOSE i \in SuccessesOf(name) : \A j \in SuccessesOf(name) : j <= i

SuccessfulNames ==
    { memory_items[i].tool_name : i \in DOMAIN memory_items } \cap
    { name \in { ToolNames[k] : k \in DOMAIN ToolNames } : SuccessesOf(name) # {} }

\* C16: find_recent_successful_tools returns only names of successful tool
\* outputs that carry a tool name, each name once, the most recent successful
\* occurrence first, and with the default limit the 5 most recent distinct
\* names at most; a history in which "search" succeeded twice yields
\* ["search"].
C16_RecentTools ==
    st_pc = "found" =>
        LET r == recent_tools[1]
        IN /\ \A k \in DOMAIN r : r[k] # "" /\ SuccessesOf(r[k]) # {}
           /\ \A j, k \in DOMAIN r : j # k => r[j] # r[k]
           /\ \A j, k \in DOMAIN r : j < k => LastSuccessOf(r[j]) > LastSuccessOf(r[k])
           /\ Len(r) <= 5
           /\ Len(r) = IF Cardinality(SuccessfulNames) < 5
                       THEN Cardinality(SuccessfulNames) ELSE 5
           /\ \A name \in SuccessfulNames :
                (\A k \in DOMAIN r : r[k] # name)
                    => \A k \in DOMAIN r : LastSuccessOf(name) < LastSuccessOf(r[k])
           /\ memory_items = <<ToolOutputItem("search", TRUE), ToolOutputItem("search", TRUE)>>
                => r = <<"search">>

C16_Witness ==
    /\ st_pc = "found"
    /\ Cardinality(SuccessfulNames) = 6
    /\ recent_tools = Some(<<"open", "sort", "fetch", "multiply", "add">>)

\* C17: select_decision_prompt_path is total in (planning_mode,
\* exploration_mode): conservative gives the conservative template whatever
\* the exploration mode; exploratory with parallel and exploratory with
\* sequential give two further templates, distinct from each other and from
\* the conservative one; every other combination gives the conservative
\* template.
C17_PromptPath ==
    st_pc = "raised" =>
        /\ prompt_path # None
        /\ planning_mode = "conservative" => prompt_path = Some(CONSERVATIVE_PROMPT)
        /\ (planning_mode = "exploratory" /\ exploration_mode = Some("parallel"))
             => (prompt_path = Some(PARALLEL_PROMPT)
                 /\ prompt_path[1] \notin {CONSERVATIVE_PROMPT, SEQUENTIAL_PROMPT})
        /\ (planning_mode = "exploratory" /\ exploration_mode = Some("sequential"))
             => (prompt_path = Some(SEQUENTIAL_PROMPT)
                 /\ prompt_path[1] \notin {CONSERVATIVE_PROMPT, PARALLEL_PROMPT})
        /\ ~(planning_mode = "exploratory"
              /\ exploration_mode \in {Some("parallel"), Some("sequential")})
             => prompt_path = Some(CONSERVATIVE_PROMPT)

C17_Witness ==
    /\ st_pc = "raised"
    /\ planning_mode = "exploratory"
    /\ exploration_mode = None
    /\ prompt_path = Some(CONSERVATIVE_PROMPT)

\* the tools the hint of the call names, and the lines that describe tools
HintedTools ==
    IF tool_hint = None THEN AllTools
    ELSE SelectSeq(AllTools, LAMBDA t : t = tool_hint[1])

Describe(tools) == JoinWith([k \in DOMAIN tools |-> <<"-", " ", tools[k]>>], <<"\n">>)

\* exploratory mode, a forced replan, memory fallback enabled
FallbackCase ==
    planning_mode = "exploratory" /\ force_replan /\ memory_fallback_enabled

\* C18: in conservative mode, and in exploratory mode when memory fallback
\* does not apply, the tool context given to the plan generator describes the
\* tools filtered by the hint, except that it describes the full catalogue when
\* the filter leaves nothing or force_replan is set.
C18_ToolContext ==
    (/\ st_pc = "raised"
     /\ planning_mode \in {"conservative", "exploratory"}
     /\ ~FallbackCase)
        => /\ tool_context = Some(IF force_replan \/ HintedTools = <<>>
                                  THEN Describe(AllTools) ELSE Describe(HintedTools))
           /\ (tool_hint = Some("search") /\ ~force_replan)
                => tool_context = Some(<<"-", " ", "search">>)

C18_Witness ==
    /\ st_pc = "raised"
    /\ planning_mode = "conservative"
    /\ tool_hint = Some("search")
    /\ force_replan
    /\ tool_context = Some(Describe(AllTools))

\* C19: in exploratory mode with force_replan set and memory fallback enabled
\* the tool context is built from find_recent_successful_tools(memory_items)
\* when that list is not empty and from the full tool set when it is; memory
\* is consulted in no other case.
C19_MemoryFallback ==
    st_pc = "raised" =>
        /\ memory_consulted <=> FallbackCase
        /\ FallbackCase
             => tool_context =
                  Some(IF SuccessfulNames # {}
                       THEN Describe(find_recent_successful_tools(memory_items, 5))
                       ELSE Describe(AllTools))
        /\ (FallbackCase /\ memory_items = <<RunStartItem, ToolOutputItem("fetch", TRUE),
                                              ToolOutputItem("search", FALSE)>>)
             => tool_context = Some(<<"-", " ", "fetch">>)

C19_Witness ==
    /\ st_pc = "raised"
    /\ FallbackCase
    /\ memory_consulted
    /\ tool_hint = Some("search")
    /\ tool_context = Some(<<"-", " ", "fetch">>)

\* C21 as stated: generate_plan never throws past its boundary: every call
\* returns a plan to the loop, and a call in which something failed returns a
\* string that starts with "FINAL_ANSWER:".
C21_Original ==
    [][ (pc = "plan")
            => /\ pc' \in {"while", "sandbox"}
               /\ model_response' # None
               /\ ~model_response'[1].ok => StartsWith(plan', FINAL_ANSWER) ]_vars

\* C22 as stated: a plan that is a directly-terminal answer (it starts with
\* "FINAL_ANSWER:" and holds no solve definition) is not classified as invalid
\* and costs no lifeline.
C22_Original ==
    [][ (pc = "plan" /\ StartsWith(plan', FINAL_ANSWER) /\ ~HasSolveDef(plan'))
            => lifelines_left' = lifelines_left ]_vars

\* C23: the lifeline counter is a per-step countdown: every step starts with
\* it at max_lifelines_per_step whatever earlier steps spent, within a step it
\* never increases and stays within -1..L, and the step ends without a return
\* as soon as it is below zero.
C23_LifelineCountdown ==
    /\ [](lifelines_left \in -1..max_lifelines)
    /\ [][ /\ (pc = "for" /\ pc' = "while") => lifelines_left' = max_lifelines
           /\ (pc # "for") => lifelines_left' <= lifelines_left
           /\ (pc = "while" /\ lifelines_left < 0)
                => (pc' = "for" /\ step' = step + 1 /\ ret' = None
                    /\ attempts' = attempts) ]_vars

C23_Witness ==
    /\ pc = "while"
    /\ ctx_step = 1
    /\ exhausted_steps = 1
    /\ max_lifelines = 1
    /\ lifelines_left = max_lifelines

\* C24 as stated: the final-answer slot is None in every state in which run()
\* has not returned.
C24_Original == ~Done => final_answer = None

\* C24: the final-answer slot is None until the first sandbox execution ends;
\* it changes only when a sandbox result is handled or run() returns; before
\* the return it holds nothing but the answer of a failed execution or an
\* implicit answer that holds the forwarding marker; and at the return it is
\* the result returned.
C24_FinalAnswerSlot ==
    /\ []((sandbox_runs = 0 /\ ~Done) => final_answer = None)
    /\ []((~Done /\ final_answer # None)
            => \/ final_answer = Some(EXECUTION_FAILED)
               \/ /\ StartsWith(final_answer[1], FINAL_ANSWER)
                  /\ Contains(Tail(final_answer[1]), FURTHER_PROCESSING_REQUIRED))
    /\ [](Done => final_answer = Some(ret[1].result))
    /\ [][ final_answer' # final_answer => (SandboxReturns \/ pc' = "done") ]_vars

C24_Witness ==
    /\ pc = "sandbox"
    /\ final_answer = Some(EXECUTION_FAILED)
    /\ step_attempts = 2
    /\ ret = None

\* C25: the context's step index is 0-based, never decreases and is never
\* reset: it takes the values 0, 1, ... in order, each for one step of the
\* loop, and stays below max_steps.
C25_StepIndex ==
    /\ [](ctx_step \in 0..(max_steps - 1))
    /\ [](pc \in {"while", "plan", "sandbox"} => ctx_step = step)
    /\ [][ /\ ctx_step' \in {ctx_step, ctx_step + 1}
           /\ (pc = "for" /\ pc' = "while")
                => (ctx_step' = step /\ (step > 0 => ctx_step' = ctx_step + 1))
           /\ (pc # "for") => ctx_step' = ctx_step ]_vars

C25_Witness ==
    /\ Done
    /\ max_steps = 2
    /\ ctx_step = 1
    /\ ret = Return(MAX_STEPS_REACHED)

\* the tool-output records the memory sink holds
ToolOutputRecords == { i \in DOMAIN memory : memory[i].type = "tool_output" }

\* C26 as stated: every sandbox execution whose result the loop has handled,
\* a forwarded result included, has left exactly one tool-output record.
C26_Original ==
    Cardinality(ToolOutputRecords) = IF pc = "sandbox" THEN sandbox_runs - 1
                                     ELSE sandbox_runs

\* the status the ledger gives an execution that returned r
LedgerStatus(r) ==
    IF StartsWith(Strip(r), FURTHER_PROCESSING_REQUIRED) THEN "pending"
    ELSE IF StartsWith(Strip(r), SANDBOX_ERROR) THEN "failure"
    ELSE "success"

\* C29: every sandbox invocation appends one entry {step: current step, tool:
\* "solve_sandbox", status: "pending"} and nothing else appends; when the
\* execution ends the entry becomes "success" for an explicit or implicit
\* final answer, "failure" for a sandbox error and stays "pending" for a
\* forwarded result; statuses are within {pending, success, failure}, steps
\* do not decrease along the ledger, and no earlier entry is ever modified.
C29_Ledger ==
    /\ [](/\ Len(task_progress) = sandbox_runs
          /\ \A i \in DOMAIN task_progress :
                /\ task_progress[i].tool = "solve_sandbox"
                /\ task_progress[i].status \in {"pending", "success", "failure"}
                /\ \A j \in DOMAIN task_progress :
                      i < j => task_progress[i].step <= task_progress[j].step)
    /\ [][ /\ (pc = "plan" /\ pc' = "sandbox")
                => task_progress' = Append(task_progress,
                                           [step |-> ctx_step, tool |-> "solve_sandbox",
                                            status |-> "pending"])
           /\ ~(pc = "plan" /\ pc' = "sandbox") => Len(task_progress') = Len(task_progress)
           /\ sandbox_runs' # sandbox_runs => (pc = "plan" /\ pc' = "sandbox")
           /\ SandboxReturns
                => /\ task_progress[Len(task_progress)].status = "pending"
                   /\ task_progress' =
                        [task_progress EXCEPT ![Len(task_progress)].status =
                                                   LedgerStatus(result'[1])]
           /\ ~SandboxReturns
                => \A i \in DOMAIN task_progress : task_progress'[i] = task_progress[i]
         ]_vars

C29_Witness ==
    /\ Len(task_progress) = 3
    /\ task_progress[1] = [step |-> 0, tool |-> "solve_sandbox", status |-> "failure"]
    /\ task_progress[2] = [step |-> 0, tool |-> "solve_sandbox", status |-> "pending"]
    /\ task_progress[3] = [step |-> 1, tool |-> "solve_sandbox", status |-> "success"]

\* C27 as stated: extract_perception never throws past its boundary, and on
\* an internal failure (the model call, output that cannot be parsed into a
\* PerceptionResult) it returns intent "unknown", no tool hint and every key
\* of the server catalogue as selected_servers.
C27_Original ==
    /\ pr_pc # "raised"
    /\ (/\ pr_pc = "returned"
        /\ \/ ~perception_response[1].ok
           \/ ~perception_response[1].json
           \/ perception_response[1].obj.intent = None)
         => perception_result =
              Some([intent |-> "unknown", tool_hint |-> None,
                    selected_servers |-> server_catalogue[1]])

\* C28 as stated: for a non-empty server catalogue the selected_servers of
\* every PerceptionResult that extract_perception returns is non-empty.
C28_Original ==
    (pr_pc = "returned" /\ server_catalogue[1] # {})
        => perception_result[1].selected_servers # {}

ForwardedInLastStep ==
    /\ pc = "for"
    /\ step = max_steps
    /\ ctx_step = max_steps - 1
    /\ result # None
    /\ ResultClass(StripResult(result[1])) = "further"

C32_OverrideFrame ==
    [][ /\ user_input' = user_input
        /\ pc = "plan"
             => /\ plan_user_input' = Some(user_input)
                /\ plan_user_input' # user_input_override
                /\ user_input_override # None
                     => perception_input = user_input_override
        /\ plan_user_input' # plan_user_input => pc = "plan" ]_vars

C32_Witness ==
    /\ pc = "sandbox"
    /\ user_input_override # None
    /\ perception_input = user_input_override
    /\ perception_input # Some(user_input)
    /\ plan_user_input = Some(user_input)

\* C33: an input override set by a FURTHER_PROCESSING_REQUIRED result is never
\* cleared for the rest of the run: every later perception call, in every
\* later step and lifeline retry, is handed an override (the one set most
\* recently) instead of the original input, and every override value embeds
\* the original user input.
C33_OverrideKept ==
    /\ [][ /\ user_input_override # None => user_input_override' # None
           /\ user_input_override' # user_input_override
                => /\ pc = "sandbox"
                   /\ ResultClass(StripResult(result'[1])) = "further"
                   /\ user_input_override'
                        = Some(OverrideText(user_input, StripResult(result'[1])))
           /\ (pc = "while" /\ attempts' = attempts + 1 /\ user_input_override # None)
                => /\ perception_input' = user_input_override
                   /\ perception_input' # Some(user_input) ]_vars
    /\ [](user_input_override # None
            => /\ IsSubstring(user_input, user_input_override[1])
               /\ IsSubstring(<<"Original user task:", " ">> \o user_input,
                              user_input_override[1]))

C33_Witness ==
    /\ pc = "plan"
    /\ step_attempts = 2
    /\ ctx_step = 1
    /\ user_input_override # None
    /\ perception_input = user_input_override
    /\ IsSubstring(user_input, perception_input[1])

\* the attempt under way yields a plan the loop takes for invalid
InvalidPlanStep ==
    /\ pc = "plan"
    /\ ~HasSolveDef(plan') \/ StartsWith(plan', FINAL_ANSWER)

\* C34: an invalid-plan attempt changes nothing but the lifeline counter: the
\* task-progress ledger, the tool-output records of the memory sink,
\* context.final_answer, the input override and context.step are the same
\* after the attempt as before it.
C34_InvalidPlanFrame ==
    [][ /\ InvalidPlanStep
             => /\ lifelines_left' = lifelines_left - 1
                /\ pc' = "while"
                /\ task_progress' = task_progress
                /\ memory' = memory
                /\ final_answer' = final_answer
                /\ user_input_override' = user_input_override
                /\ ctx_step' = ctx_step
                /\ sandbox_runs' = sandbox_runs
        /\ (pc = "while" /\ pc' = "plan")
             => /\ lifelines_left' = lifelines_left
                /\ task_progress' = task_progress
                /\ memory' = memory
                /\ final_answer' = final_answer
                /\ user_input_override' = user_input_override
                /\ ctx_step' = ctx_step ]_vars

C34_Witness ==
    /\ pc = "while"
    /\ plan \in {PLAN_UNKNOWN, PLAN_NO_SOLVE}
    /\ ctx_step = 1
    /\ step_attempts = 1
    /\ lifelines_left = max_lifelines - 1
    /\ user_input_override # None
    /\ task_progress # <<>>
    /\ Len(memory) = 1
    /\ final_answer = None
====
